---- MODULE Spec2Model ----
(***************************************************************************)
(* A model of xrankmirror.py: main() fetches the mirror list, filters it   *)
(* by enabled / region / tier, and then lists regions, lists mirrors or    *)
(* benchmarks every mirror with rank_mirror().                             *)
(*                                                                         *)
(* Strings that the program parses (the -r argument, region codes) are     *)
(* sequences of one-character strings.  A mirror record is identified by   *)
(* its position in the decoded list (rec); the lists main() builds         *)
(* (mirrors, results) hold those positions, as the Python lists hold       *)
(* references to the same dict objects.                                    *)
(***************************************************************************)
EXTENDS Integers, Sequences, FiniteSets, TLC

\* ------------------------------------------------------------- constants

MAX_REDIRECTS == 3

\* ---------------------------------------------------------------- bounds

\* Longest mirror list served.
MaxMirrors == 2
\* Longest -r/--regions argument, in characters.
MaxArgLen == 3
\* Longest chain of redirects a server answers with before its last answer.
MaxChain == 4

\* Region codes of mirror records.
RegionCodes == {<<"A">>, <<"B">>}
\* Body lengths of a 200 answer, in bytes.
Bodies == {0, 1}
\* Elapsed times a probe measures (perf_counter() differences, > 0).
Times == {1, 2}
\* Status codes the mirror-list server answers with.
FetchStatuses == {200, 500}

\* ------------------------------------------------------- strings and URLs

\* Code points, for the order list.sort() puts strings in.
Ord(c) ==
  CASE c = " " -> 32
    [] c = "," -> 44
    [] c = "A" -> 65
    [] c = "B" -> 66

RECURSIVE LessStr(_, _)
LessStr(a, b) ==
  IF a = <<>> THEN b # <<>>
  ELSE IF b = <<>> THEN FALSE
  ELSE IF Head(a) = Head(b) THEN LessStr(Tail(a), Tail(b))
  ELSE Ord(Head(a)) < Ord(Head(b))

RECURSIVE lstrip(_, _)
lstrip(s, chars) ==
  IF s # <<>> /\ Head(s) \in chars THEN lstrip(Tail(s), chars) ELSE s

RECURSIVE rstrip(_, _)
rstrip(s, chars) ==
  IF s # <<>> /\ s[Len(s)] \in chars
  THEN rstrip(SubSeq(s, 1, Len(s) - 1), chars)
  ELSE s

\* str.strip(chars)
strip(s, chars) == rstrip(lstrip(s, chars), chars)

\* str.split(sep): every separator splits, empty pieces are kept.
RECURSIVE split(_, _)
split(s, sep) ==
  IF \E k \in 1..Len(s) : s[k] = sep
  THEN LET k == CHOOSE j \in 1..Len(s) :
                  s[j] = sep /\ \A h \in 1..(j - 1) : s[h] # sep
       IN  <<SubSeq(s, 1, k - 1)>> \o split(SubSeq(s, k + 1, Len(s)), sep)
  ELSE <<s>>

\* The elements of a list, as a set.
Elems(q) == {q[k] : k \in DOMAIN q}

\* A URL: how it starts ("https" = "https://host...", "http" = "http://host...",
\* "badport" = "https://host:x..." whose port is no number, "other" = neither
\* prefix, e.g. a relative Location) and its path.  NoUrl is None, what
\* getheader('Location') returns when the header is missing.
Url(kind, path) == [kind |-> kind, path |-> path]
NoUrl == Url("none", "")

\* "/current/" + PKG
pkg_path == "/current/runit-2.2.0_2.x86_64.xbps"

\* base_url.rstrip("/") + pkg_path: the prefix stays, the path becomes pkg_path.
TargetUrl(u, path) == [u EXCEPT !.path = path]

\* create_connection(url): "conn" when it returns a connection, "SystemExit"
\* for sys.exit on an unknown prefix, "raise" for an exception (None has no
\* startswith; HTTPSConnection raises InvalidURL on a port that is no number).
create_connection(url) ==
  CASE url.kind = "none" -> "raise"
    [] url.kind = "https" -> "conn"
    [] url.kind = "badport" -> "raise"
    [] url.kind = "http" -> "conn"
    [] OTHER -> "SystemExit"

\* ------------------------------------------------------------- mirror data

\* The value of mirror["speed"]: the key is absent, None, or the float n/d.
Absent == [st |-> "absent", n |-> 0, d |-> 1]
None == [st |-> "none", n |-> 0, d |-> 1]
Speed(n, d) == [st |-> "num", n |-> n, d |-> d]

\* a >= b on the floats (both "num").
SpeedGeq(a, b) == a.n * b.d >= b.n * a.d

\* One record of the served JSON array.
Mirror(u, region, tier, enabled) ==
  [base_url |-> u, region |-> region, location |-> "Frankfurt, Germany",
   tier |-> tier, enabled |-> enabled]

\* json.loads of one record: a dict without a "speed" key.
Decode(m) ==
  [base_url |-> m.base_url, region |-> m.region, location |-> m.location,
   tier |-> m.tier, enabled |-> m.enabled, speed |-> Absent]

\* All lists of length at most n over S.
SeqsUpTo(S, n) == UNION {[1..k -> S] : k \in 0..n}

\* ------------------------------------------------------------- the network

\* What a server does with one GET: it answers (status, body length, Location
\* header, whether the body can be read to its end) or the request fails
\* (connection refused, timeout).
Resp(status, body, loc, readok) ==
  [ev |-> "resp", status |-> status, body |-> body, loc |-> loc, readok |-> readok]
ConnFail == [ev |-> "fail", status |-> 0, body |-> 0, loc |-> NoUrl, readok |-> FALSE]

Ok(b) == Resp(200, b, NoUrl, TRUE)
NotFound == Resp(404, 1, NoUrl, TRUE)
GoodRedirect == Resp(301, 1, Url("https", pkg_path), TRUE)

\* The last answer of a chain: a 200 (whole or cut short), a 404, a failed
\* request, or a redirect whose Location cannot be followed (relative, missing,
\* bad port).
Terminals ==
  {Ok(b) : b \in Bodies}
    \cup {Resp(200, 1, NoUrl, FALSE), NotFound, ConnFail,
          Resp(302, 0, Url("other", "/x"), TRUE),
          Resp(307, 0, NoUrl, TRUE),
          Resp(308, 0, Url("badport", "/x"), TRUE)}

\* k redirects with a valid Location, then t.
Chain(k, t) == [j \in 1..(k + 1) |-> IF j <= k THEN GoodRedirect ELSE t]

\* The answers of one mirror to the successive GETs of its probe.
Scripts ==
  {Chain(k, t) : k \in 0..2, t \in Terminals}
    \cup {Chain(k, Ok(1)) : k \in 3..MaxChain}
SimpleScripts == {Chain(0, Ok(1)), Chain(0, NotFound)}
PlainScripts == {Chain(0, Ok(1))}

\* ------------------------------------------------------------------ state

VARIABLES
  args,      \* argparse result: list_regions, regions, tier (0 = None), list_mirrors
  remote,    \* the JSON array served at the mirror-list URL
  net,       \* net[i]: the answers of mirror i's servers
  pc,        \* position in main / benchmark_mirrors / rank_mirror
  exit,      \* "running", "ok", "fatal" (sys.exit), "crash" (uncaught exception)
  rec,       \* the decoded mirror dicts
  mirrors,   \* main's / benchmark_mirrors' list `mirrors` (positions in rec)
  index,     \* benchmark_mirrors: position of the loop in mirrors, from 1
  results,   \* benchmark_mirrors: `results`
  base_url,  \* rank_mirror: `base_url`
  conn,      \* rank_mirror: `conn` ("unbound" before the first assignment)
  response,  \* rank_mirror: `response`
  redirects, \* rank_mirror: iterations of the redirect loop completed
  trace,     \* history: statuses received in the current / last probe
  cause,     \* history: how the last probe ended ("" while none has)
  out,       \* standard output, one entry per print
  err,       \* standard error, one entry per message
  fetches,   \* history: GETs of the mirror list
  gets,      \* history: GETs of a mirror's package URL
  modes      \* history: modes entered

vars ==
  <<args, remote, net, pc, exit, rec, mirrors, index, results, base_url, conn,
    response, redirects, trace, cause, out, err, fetches, gets, modes>>

env == <<args, remote, net>>
rank_locals == <<base_url, conn, response, redirects>>

NoResponse == [status |-> 0, body |-> 0, closed |-> FALSE, readok |-> FALSE]

Line(kind, arg) == [kind |-> kind, arg |-> arg]
Printed(stream, kind) == \E k \in DOMAIN stream : stream[k].kind = kind

\* ------------------------------------------------------------------ inputs

Flags(strings) ==
  [list_regions : BOOLEAN, regions : strings, tier : {0, 1, 2},
   list_mirrors : BOOLEAN]

MirrorRecords ==
  {Mirror(Url("https", "/"), r, t, e) :
     r \in RegionCodes, t \in {1, 2}, e \in BOOLEAN}

\* After construction: nothing fetched, nothing printed.
Start(A, Pairs) ==
  /\ args \in A
  /\ \E ps \in SeqsUpTo(Pairs, MaxMirrors) :
       /\ remote = [i \in DOMAIN ps |-> ps[i][1]]
       /\ net = [i \in DOMAIN ps |-> ps[i][2]]
  /\ pc = "fetch"
  /\ exit = "running"
  /\ rec = <<>>
  /\ mirrors = <<>>
  /\ index = 0
  /\ results = <<>>
  /\ base_url = NoUrl
  /\ conn = "unbound"
  /\ response = NoResponse
  /\ redirects = 0
  /\ trace = <<>>
  /\ cause = ""
  /\ out = <<>>
  /\ err = <<>>
  /\ fetches = 0
  /\ gets = 0
  /\ modes = {}

\* The whole program: every flag combination, a few -r arguments, every
\* record, servers that answer 200 or 404 at once.
SimpleRegionArgs == {<<>>, <<" ", "A", ",">>, <<"B", ",", "A">>}

Init == Start(Flags(SimpleRegionArgs), MirrorRecords \X SimpleScripts)

\* The filters: every -r argument over FilterChars, servers that answer 200.
FilterChars == {"A", "B", ","}
FilterRecords ==
  {Mirror(Url("https", "/"), r, t, TRUE) : r \in RegionCodes, t \in {1, 2}}
    \cup {Mirror(Url("https", "/"), <<"A">>, 1, FALSE)}

InitFilter ==
  Start(Flags(SeqsUpTo(FilterChars, MaxArgLen)), FilterRecords \X PlainScripts)

\* The benchmark: no flag given, every server behaviour, every kind of
\* base_url.
NoFlags ==
  [list_regions |-> FALSE, regions |-> <<>>, tier |-> 0, list_mirrors |-> FALSE]
BenchMirror(kind) == Mirror(Url(kind, "/"), <<"A">>, 1, TRUE)
BenchPairs ==
  ({BenchMirror("https")} \X Scripts)
    \cup ({BenchMirror(k) : k \in {"http", "badport", "other"}} \X PlainScripts)

InitBench == Start({NoFlags}, BenchPairs)

\* ------------------------------------------------------------ main: fetch

\* sys.exit(message): the message goes to standard error, the process ends.
SysExit(kind, arg) ==
  /\ exit' = "fatal"
  /\ err' = Append(err, Line(kind, arg))

\* fetch_mirrorlist: one GET; a status other than 200 is fatal, else the
\* records are decoded.
FetchMirrorlist ==
  /\ pc = "fetch" /\ exit = "running"
  /\ fetches' = fetches + 1
  /\ \E status \in FetchStatuses :
       IF status # 200
       THEN /\ SysExit("Error: Unable to fetch mirror list", status)
            /\ UNCHANGED <<pc, rec, mirrors>>
       ELSE /\ rec' = [i \in DOMAIN remote |-> Decode(remote[i])]
            /\ mirrors' = [i \in DOMAIN remote |-> i]
            /\ pc' = "enabled"
            /\ UNCHANGED <<exit, err>>
  /\ UNCHANGED <<env, index, results, rank_locals, trace, cause, out, gets, modes>>

\* [mirror for mirror in mirrors if mirror["enabled"]]
EnabledOnly(r, ms) == SelectSeq(ms, LAMBDA i : r[i].enabled)

FilterEnabled ==
  /\ pc = "enabled" /\ exit = "running"
  /\ mirrors' = EnabledOnly(rec, mirrors)
  /\ pc' = "list_regions"
  /\ UNCHANGED <<env, exit, rec, index, results, rank_locals, trace, cause, out,
                 err, fetches, gets, modes>>

\* ----------------------------------------------------------- main: regions

RECURSIVE SortStrings(_)
SortStrings(S) ==
  IF S = {} THEN <<>>
  ELSE LET m == CHOOSE x \in S : \A y \in S \ {x} : LessStr(x, y)
       IN  <<m>> \o SortStrings(S \ {m})

\* list_regions(mirrors, display=False): the distinct regions, sorted.
list_regions(r, ms) == SortStrings({r[ms[k]].region : k \in DOMAIN ms})

\* What list_regions(mirrors) prints.
RegionLines(regions) ==
  IF regions # <<>>
  THEN <<Line("Available Regions:", <<>>)>>
         \o [k \in DOMAIN regions |-> Line(" - ", regions[k])]
  ELSE <<Line("No regions available.", <<>>)>>

\* The test that lets -l go first.
ListRegionsUnlessMirrors(a) == a.list_regions /\ ~a.list_mirrors

\* if args.list_regions:
ListRegionsGiven(a) == a.list_regions

\* if args.list_regions: list_regions(mirrors); return
ListRegionsStage ==
  /\ pc = "list_regions" /\ exit = "running"
  /\ IF ListRegionsGiven(args)
     THEN /\ out' = out \o RegionLines(list_regions(rec, mirrors))
          /\ modes' = modes \cup {"list_regions"}
          /\ exit' = "ok"
          /\ UNCHANGED pc
     ELSE /\ pc' = "region_filter"
          /\ UNCHANGED <<out, modes, exit>>
  /\ UNCHANGED <<env, rec, mirrors, index, results, rank_locals, trace, cause,
                 err, fetches, gets>>

\* args.regions.strip(" ,")
StrippedRegions(a) == strip(a.regions, {" ", ","})

\* The validation that looks at the first requested region only.
InvalidRegionsFirstOnly(regions, available) ==
  IF Head(regions) \notin Elems(available) THEN <<Head(regions)>> ELSE <<>>

\* The requested regions that the validation loop rejects, in order.
InvalidRegions(regions, available) ==
  SelectSeq(regions, LAMBDA x : x \notin Elems(available))

\* [mirror for mirror in mirrors if mirror["region"] in regions]
InRegions(r, ms, regions) == SelectSeq(ms, LAMBDA i : r[i].region \in Elems(regions))

FilterRegion ==
  /\ pc = "region_filter" /\ exit = "running"
  /\ LET stripped == StrippedRegions(args)
         regions == split(stripped, ",")
         bad == InvalidRegions(regions, list_regions(rec, mirrors))
     IN  IF stripped = <<>>
         THEN /\ pc' = "tier_filter"
              /\ UNCHANGED <<mirrors, exit, err>>
         ELSE IF bad # <<>>
         THEN /\ SysExit("Error: Region not supported", Head(bad))
              /\ UNCHANGED <<pc, mirrors>>
         ELSE /\ mirrors' = InRegions(rec, mirrors, regions)
              /\ pc' = "tier_filter"
              /\ UNCHANGED <<exit, err>>
  /\ UNCHANGED <<env, rec, index, results, rank_locals, trace, cause, out,
                 fetches, gets, modes>>

\* ------------------------------------------------- main: tier, list mirrors

\* The tier filter with >= for ==.
OfTierAtLeast(r, ms, t) == SelectSeq(ms, LAMBDA i : r[i].tier >= t)

\* [mirror for mirror in mirrors if mirror['tier'] == args.tier]
OfTier(r, ms, t) == SelectSeq(ms, LAMBDA i : r[i].tier = t)

FilterTier ==
  /\ pc = "tier_filter" /\ exit = "running"
  /\ mirrors' = IF args.tier # 0 THEN OfTier(rec, mirrors, args.tier) ELSE mirrors
  /\ pc' = "list_mirrors"
  /\ UNCHANGED <<env, exit, rec, index, results, rank_locals, trace, cause, out,
                 err, fetches, gets, modes>>

\* What list_mirrors(mirrors) prints: nothing for an empty list.
MirrorLines(ms) ==
  IF ms = <<>> THEN <<>>
  ELSE <<Line("repo tier region location", <<>>)>>
         \o [k \in DOMAIN ms |-> Line("mirror", ms[k])]

\* if args.list_mirrors:
ListMirrorsGiven(a) == a.list_mirrors

\* if args.list_mirrors: list_mirrors(mirrors); return
ListMirrorsStage ==
  /\ pc = "list_mirrors" /\ exit = "running"
  /\ IF ListMirrorsGiven(args)
     THEN /\ out' = out \o MirrorLines(mirrors)
          /\ modes' = modes \cup {"list_mirrors"}
          /\ exit' = "ok"
          /\ UNCHANGED pc
     ELSE /\ pc' = "benchmark"
          /\ UNCHANGED <<out, modes, exit>>
  /\ UNCHANGED <<env, rec, mirrors, index, results, rank_locals, trace, cause,
                 err, fetches, gets>>

\* -------------------------------------------------------------- rank_mirror

\* The loop with one iteration more.
LoopIterationsPlusOne == MAX_REDIRECTS + 1

\* for _ in range(MAX_REDIRECTS)
LoopIterations == MAX_REDIRECTS

\* response.status not in (301, 302, 303, 307, 308)
IsRedirect(status) == status \in {301, 302, 303, 307, 308}

\* The attributes of sys.stderr that rank_mirror could call.
TextIOMethods == {"write", "writelines", "flush"}

\* The store that also keeps the probed URL in the record.
SetSpeedAndUrl(m, v) ==
  [m EXCEPT !.speed = v, !.base_url = TargetUrl(@, pkg_path)]

\* mirror["speed"] = <value>
SetSpeed(m, v) == [m EXCEPT !.speed = v]

\* mirror.get("speed") is not None
HasSpeed(m) == m.speed.st # "none"

\* rank_mirror returns v to benchmark_mirrors, which stores it, keeps the
\* mirror if it has a speed and prints the progress line (lines 119-122).
\* o and e are the two streams when rank_mirror returns.
Return(v, c, o, e) ==
  LET id == mirrors[index]
      stored == [rec EXCEPT ![id] = SetSpeed(@, v)]
  IN  /\ rec' = stored
      /\ results' = IF HasSpeed(stored[id]) THEN Append(results, id) ELSE results
      /\ out' = Append(o, Line("Progress", index))
      /\ err' = e
      /\ index' = index + 1
      /\ pc' = "bench_loop"
      /\ cause' = c
      /\ UNCHANGED exit

\* except Exception: print(f"ERROR: {conn.host}: failed utterly"); return None.
\* Reading conn before its first assignment raises UnboundLocalError inside
\* the handler, which nothing catches.
Handler(c, cn) ==
  IF cn = "unbound"
  THEN /\ exit' = "crash"
       /\ err' = Append(err, Line("UnboundLocalError", "conn"))
       /\ cause' = "crash"
       /\ UNCHANGED <<rec, results, out, index, pc>>
  ELSE Return(None, c, Append(out, Line("ERROR: failed utterly", cn)), err)

\* The head of the loop over mirrors and lines 88-90 of rank_mirror.
RankStart ==
  /\ pc = "bench_loop" /\ exit = "running"
  /\ index <= Len(mirrors)
  /\ base_url' = TargetUrl(rec[mirrors[index]].base_url, pkg_path)
  /\ conn' = "unbound"
  /\ response' = NoResponse
  /\ redirects' = 0
  /\ trace' = <<>>
  /\ cause' = ""
  /\ pc' = "rank_loop"
  /\ UNCHANGED <<env, exit, rec, mirrors, index, results, out, err, fetches,
                 gets, modes>>

\* One iteration of the redirect loop (lines 92-98).
RankRequest ==
  /\ pc = "rank_loop" /\ exit = "running"
  /\ LET made == create_connection(base_url)
         ev == net[mirrors[index]][redirects + 1]
     IN  IF made = "SystemExit"
         THEN /\ SysExit("Error: Invalid url", base_url)
              /\ cause' = "exit"
              /\ UNCHANGED <<rec, results, out, index, pc, rank_locals, trace, gets>>
         ELSE IF made = "raise"
         THEN /\ Handler("error", conn)
              /\ UNCHANGED <<rank_locals, trace, gets>>
         ELSE /\ conn' = base_url.kind
              /\ gets' = gets + 1
              /\ IF ev.ev = "fail"
                 THEN /\ Handler("error", base_url.kind)
                      /\ UNCHANGED <<base_url, response, redirects, trace>>
                 ELSE /\ trace' = Append(trace, ev.status)
                      /\ UNCHANGED <<rec, results, out, err, index, cause, exit>>
                      /\ IF ~IsRedirect(ev.status)
                         THEN /\ response' = [status |-> ev.status, body |-> ev.body,
                                              closed |-> FALSE, readok |-> ev.readok]
                              /\ pc' = "rank_measure"
                              /\ UNCHANGED <<base_url, redirects>>
                         ELSE /\ base_url' = ev.loc
                              /\ response' = [status |-> ev.status, body |-> ev.body,
                                              closed |-> TRUE, readok |-> ev.readok]
                              /\ redirects' = redirects + 1
                              /\ pc' = IF redirects + 1 < LoopIterations
                                       THEN "rank_loop" ELSE "rank_measure"
  /\ UNCHANGED <<env, mirrors, fetches, modes>>

\* After the loop (lines 99-106): the time, the body, the status check.  A
\* closed response reads as b""; a body cut short raises in read().
RankMeasure ==
  /\ pc = "rank_measure" /\ exit = "running"
  /\ \E ttime \in Times :
       LET data_len == IF response.closed THEN 0 ELSE response.body
       IN  IF ~response.closed /\ ~response.readok
           THEN Handler("error", conn)
           ELSE IF response.status # 200
           THEN IF "writelinse" \in TextIOMethods
                THEN Return(None, "status", out,
                            Append(err, Line("ERROR: failed with status code",
                                             response.status)))
                ELSE Handler("status", conn)
           ELSE Return(Speed(data_len, ttime), "ok", out, err)
  /\ UNCHANGED <<env, mirrors, rank_locals, trace, fetches, gets, modes>>

\* -------------------------------------------------------- benchmark_mirrors

BenchmarkStart ==
  /\ pc = "benchmark" /\ exit = "running"
  /\ out' = Append(out, Line("Found mirrors", Len(mirrors)))
  /\ results' = <<>>
  /\ index' = 1
  /\ modes' = modes \cup {"benchmark"}
  /\ pc' = "bench_loop"
  /\ UNCHANGED <<env, exit, rec, mirrors, rank_locals, trace, cause, err,
                 fetches, gets>>

\* The insertion with the comparison turned round: lowest first.
RECURSIVE InsertBySpeedAscending(_, _, _)
InsertBySpeedAscending(r, sorted, x) ==
  IF sorted = <<>> THEN <<x>>
  ELSE IF SpeedGeq(r[x].speed, r[Head(sorted)].speed)
       THEN <<Head(sorted)>> \o InsertBySpeedAscending(r, Tail(sorted), x)
       ELSE <<x>> \o sorted

\* x put into a list sorted by speed, highest first, behind its equals.
RECURSIVE InsertBySpeed(_, _, _)
InsertBySpeed(r, sorted, x) ==
  IF sorted = <<>> THEN <<x>>
  ELSE IF SpeedGeq(r[Head(sorted)].speed, r[x].speed)
       THEN <<Head(sorted)>> \o InsertBySpeed(r, Tail(sorted), x)
       ELSE <<x>> \o sorted

\* results.sort(key=itemgetter("speed"), reverse=True): stable.
RECURSIVE SortBySpeed(_, _)
SortBySpeed(r, res) ==
  IF res = <<>> THEN <<>>
  ELSE InsertBySpeed(r, SortBySpeed(r, SubSeq(res, 1, Len(res) - 1)), res[Len(res)])

\* The table printed without the test for an empty result.
RankLinesAlwaysTable(res) ==
  <<Line("repo tier region location speed", <<>>)>>
    \o [k \in DOMAIN res |-> Line("ranked", res[k])]

\* What benchmark_mirrors prints for the sorted results (lines 128-133).
RankLines(res) ==
  IF res = <<>> THEN <<Line("No working mirrors available", <<>>)>>
  ELSE <<Line("repo tier region location speed", <<>>)>>
         \o [k \in DOMAIN res |-> Line("ranked", res[k])]

\* The loop is over: print(), sort, the table or the message, main's print().
BenchmarkFinish ==
  /\ pc = "bench_loop" /\ exit = "running"
  /\ index > Len(mirrors)
  /\ results' = SortBySpeed(rec, results)
  /\ out' = Append(out, Line("", <<>>)) \o RankLines(results')
              \o <<Line("", <<>>)>>
  /\ pc' = "done"
  /\ exit' = "ok"
  /\ UNCHANGED <<env, rec, mirrors, index, rank_locals, trace, cause, err,
                 fetches, gets, modes>>

\* --------------------------------------------------------- specifications

Next ==
  \/ FetchMirrorlist
  \/ FilterEnabled
  \/ ListRegionsStage
  \/ FilterRegion
  \/ FilterTier
  \/ ListMirrorsStage
  \/ BenchmarkStart
  \/ RankStart
  \/ RankRequest
  \/ RankMeasure
  \/ BenchmarkFinish

Spec == Init /\ [][Next]_vars
SpecFilter == InitFilter /\ [][Next]_vars
SpecBench == InitBench /\ [][Next]_vars

\* ------------------------------------------------------- notions of claims

\* The mirror of the probe that ended last (cause # "").
LastProbed ==
  IF cause \in {"exit", "crash"} THEN mirrors[index] ELSE mirrors[index - 1]

\* The rows of the ranked table, in printed order.
RankedRows ==
  LET rows == SelectSeq(out, LAMBDA l : l.kind = "ranked")
  IN  [k \in DOMAIN rows |-> rows[k].arg]

\* The served records that are enabled, by position, and their regions.
ServedIds == [i \in DOMAIN remote |-> i]
EnabledRegions == {remote[i].region : i \in {j \in DOMAIN remote : remote[j].enabled}}

\* The regions -r asks for, once spaces and commas are stripped from its ends.
RegionsGiven == strip(args.regions, {" ", ","}) # <<>>
Requested == split(strip(args.regions, {" ", ","}), ",")
NamesInvalidRegion ==
  RegionsGiven /\ \E k \in DOMAIN Requested : Requested[k] \notin EnabledRegions
FirstInvalidRegion ==
  Requested[CHOOSE k \in DOMAIN Requested :
              /\ Requested[k] \notin EnabledRegions
              /\ \A h \in 1..(k - 1) : Requested[h] \in EnabledRegions]

\* main is past its filters.
PastFilters ==
  pc \in {"list_mirrors", "benchmark", "bench_loop", "rank_loop", "rank_measure", "done"}

\* ------------------------------------------------------ claims: rank_mirror

\* C1: a probe in which rank_mirror raises an exception (a URL that cannot be
\* turned into a connection, a failed request, a body cut short) leaves its
\* mirror without a speed and out of the results, and does not end the run.
C1_ProbeErrorNeverAborts ==
  cause \in {"error", "crash"} =>
    /\ exit # "crash"
    /\ rec[LastProbed].speed.st = "none"
    /\ LastProbed \notin Elems(results)

\* C2: the loop receives at most MAX_REDIRECTS answers per probe; a probe that
\* reaches the status check succeeds exactly if the last status received is
\* 200, its speed then has the body length of that last answer, and otherwise
\* the mirror gets None; a server that chains four or more redirects is asked
\* three times and gets None.
C2_RedirectLoop ==
  /\ Len(trace) <= MAX_REDIRECTS
  /\ cause \in {"ok", "status"} =>
       /\ (cause = "ok") <=> (trace[Len(trace)] = 200)
       /\ cause = "ok" =>
            /\ response.status = 200 /\ ~response.closed
            /\ rec[LastProbed].speed.st = "num"
            /\ rec[LastProbed].speed.n = response.body
       /\ cause = "status" => rec[LastProbed].speed.st = "none"
  /\ (cause # "" /\ remote[LastProbed].base_url.kind = "https"
        /\ Len(net[LastProbed]) > MAX_REDIRECTS + 1) =>
       /\ trace = <<301, 301, 301>>
       /\ rec[LastProbed].speed.st = "none"

\* The second mirror answered 301, 301, 200 and got the speed of the 200's
\* body after the first mirror, which chains four redirects, got None.
C2_Witness ==
  /\ cause = "ok" /\ trace = <<301, 301, 200>>
  /\ index = 3
  /\ rec[2].speed = Speed(1, 2)
  /\ Len(net[1]) = 5 /\ rec[1].speed.st = "none"

\* C3: a mirror that answers k redirects, 0 <= k <= MAX_REDIRECTS, each with a
\* valid Location, and then 200 gets a speed.
C3_ChainWithinBoundSucceeds ==
  \A k \in 0..MAX_REDIRECTS : \A b \in Bodies :
    (/\ cause # ""
     /\ remote[LastProbed].base_url.kind = "https"
     /\ net[LastProbed] = Chain(k, Ok(b)))
      => rec[LastProbed].speed.st = "num"

\* C4: a probe whose last status is not 200 leaves its mirror without a speed
\* and writes a warning that names the status on standard error.
C4_StatusWarningOnStderr ==
  cause = "status" =>
    /\ rec[LastProbed].speed.st = "none"
    /\ \E k \in DOMAIN err :
         /\ err[k].kind = "ERROR: failed with status code"
         /\ err[k].arg = response.status

\* ------------------------------------------------ claims: benchmark_mirrors

\* C7: the ranked table has one row for every mirror whose probe returned a
\* speed, none for the others, and its rows are in non-increasing order of
\* speed.
C7_RankedTable ==
  pc = "done" =>
    /\ Elems(RankedRows)
         = {mirrors[k] : k \in {j \in DOMAIN mirrors : rec[mirrors[j]].speed.st = "num"}}
    /\ Len(RankedRows) = Cardinality(Elems(RankedRows))
    /\ \A i, j \in DOMAIN RankedRows :
         i < j => SpeedGeq(rec[RankedRows[i]].speed, rec[RankedRows[j]].speed)

\* The faster mirror was probed second and is printed first.
C7_Witness ==
  /\ pc = "done"
  /\ RankedRows = <<2, 1>>
  /\ ~SpeedGeq(rec[1].speed, rec[2].speed)

\* ------------------------------------------------------------ claims: main

\* C5, as claimed: once the list is fetched, a -r that names a region no
\* enabled mirror has ends main with the fatal region error, whatever the
\* other flags are.
C5_InvalidRegionAlwaysFatal ==
  (pc # "fetch" /\ NamesInvalidRegion /\ exit # "running") =>
    /\ exit = "fatal"
    /\ Printed(err, "Error: Region not supported")

\* C5, amended: with such a -r main never gets past the region filter, prints
\* no mirror table and probes nothing; without --list-regions it ends with the
\* fatal error that names the first such region, with --list-regions it
\* prints the regions and returns before -r is looked at.
C5_InvalidRegionFatalUnlessListing ==
  (pc # "fetch" /\ NamesInvalidRegion) =>
    /\ pc \in {"enabled", "list_regions", "region_filter"}
    /\ gets = 0
    /\ modes \subseteq {"list_regions"}
    /\ ~Printed(out, "mirror") /\ ~Printed(out, "ranked") /\ ~Printed(out, "Found mirrors")
    /\ pc = "region_filter" => mirrors = EnabledOnly(rec, ServedIds)
    /\ exit # "running" =>
         IF args.list_regions
         THEN exit = "ok" /\ modes = {"list_regions"} /\ err = <<>>
         ELSE /\ exit = "fatal"
              /\ Len(err) = 1
              /\ err[1].kind = "Error: Region not supported"
              /\ err[1].arg = FirstInvalidRegion

\* -r names a valid region and then an invalid one, --tier and -l are given,
\* and main has ended with the error.
C5_Witness ==
  /\ exit = "fatal" /\ pc = "region_filter"
  /\ NamesInvalidRegion
  /\ Len(Requested) = 2 /\ Requested[1] \in EnabledRegions
  /\ args.tier # 0 /\ args.list_mirrors

\* C6: the list main passes on to list_mirrors or benchmark_mirrors is the
\* served records that are enabled, whose region is requested if -r names
\* regions, and whose tier is the one asked for if --tier is given, in the
\* order served.
C6_FilteredList ==
  PastFilters =>
    mirrors = SelectSeq(ServedIds,
                LAMBDA i : /\ remote[i].enabled
                           /\ RegionsGiven => remote[i].region \in Elems(Requested)
                           /\ args.tier # 0 => remote[i].tier = args.tier)

\* Both filters are given, -r names two regions, and of two enabled mirrors
\* of those regions the second alone has the tier asked for.
C6_Witness ==
  /\ PastFilters
  /\ Len(Requested) = 2 /\ Requested[1] # Requested[2]
  /\ args.tier = 1
  /\ Len(remote) = 2 /\ remote[1].enabled /\ remote[2].enabled
  /\ remote[1].region # remote[2].region
  /\ remote[1].tier = 2
  /\ mirrors = <<2>>

\* C8, as claimed: a run that ends in list-mirrors or benchmark mode with
\* nothing to show has printed a message that says so.
C8_EmptyAlwaysAnnounced ==
  (/\ exit = "ok"
   /\ \/ "list_mirrors" \in modes /\ mirrors = <<>>
      \/ "benchmark" \in modes /\ results = <<>>)
    => Printed(out, "No working mirrors available")

\* C8, amended: benchmark_mirrors that ends with no mirror having a speed
\* prints the message and no table; list_mirrors prints nothing at all for an
\* empty list.
C8_EmptyAnnouncedInBenchmarkOnly ==
  /\ (/\ exit = "ok" /\ "benchmark" \in modes
      /\ \A k \in DOMAIN mirrors : rec[mirrors[k]].speed.st # "num")
       => /\ Printed(out, "No working mirrors available")
          /\ ~Printed(out, "repo tier region location speed")
          /\ ~Printed(out, "ranked")
  /\ (exit = "ok" /\ "list_mirrors" \in modes /\ mirrors = <<>>) => out = <<>>

\* Every mirror was probed, none got a speed, and the message is printed.
C8_Witness ==
  /\ exit = "ok" /\ "benchmark" \in modes
  /\ Len(mirrors) = 2
  /\ \A k \in DOMAIN mirrors : rec[mirrors[k]].speed.st = "none"
  /\ Printed(out, "No working mirrors available")

\* C9: the list is fetched once; a run that does not end in a fatal error has
\* entered exactly one mode, list-regions if its flag is given, else
\* list-mirrors if its flag is given, else benchmark; no package URL is
\* requested outside benchmark mode.
C9_OneFetchOneMode ==
  /\ fetches <= 1
  /\ Cardinality(modes) <= 1
  /\ "benchmark" \notin modes => gets = 0
  /\ exit \in {"ok", "crash"} =>
       /\ fetches = 1
       /\ modes = {IF args.list_regions THEN "list_regions"
                   ELSE IF args.list_mirrors THEN "list_mirrors"
                   ELSE "benchmark"}

\* Both listing flags are given, mirrors are there, and the regions were listed.
C9_Witness ==
  /\ exit = "ok"
  /\ args.list_regions /\ args.list_mirrors
  /\ mirrors # <<>>
  /\ modes = {"list_regions"} /\ gets = 0 /\ fetches = 1

\* C10: no step changes base_url, region, location, tier or enabled of a
\* record or removes a record; a step changes the speed of a record only
\* inside rank_mirror's call for that record, from absent to None or a number.
C10_OnlySpeedWrittenOnce ==
  [][\A i \in DOMAIN rec :
       /\ i \in DOMAIN rec'
       /\ rec'[i].base_url = rec[i].base_url
       /\ rec'[i].region = rec[i].region
       /\ rec'[i].location = rec[i].location
       /\ rec'[i].tier = rec[i].tier
       /\ rec'[i].enabled = rec[i].enabled
       /\ rec'[i].speed # rec[i].speed =>
            /\ pc \in {"rank_loop", "rank_measure"}
            /\ i = mirrors[index]
            /\ rec[i].speed = Absent
            /\ rec'[i].speed.st \in {"none", "num"}]_vars

\* The run is over, one mirror has a speed and another has None.
C10_Witness ==
  /\ pc = "done"
  /\ \E i, j \in DOMAIN rec : rec[i].speed.st = "num" /\ rec[j].speed.st = "none"

====
